---- MODULE Spec2Model ----
(***************************************************************************)
(* State-machine model of src/api/controllers/images.ts:                   *)
(*   generateImagesWithRetry (the tier-downgrade wrapper) and              *)
(*   generateImages (upload -> credit probe -> submission -> polling).     *)
(* One action per stretch of code between two suspension points (await).   *)
(* The collaborators of core.ts (uploadFile, getCredit, receiveCredit,     *)
(* request) are the environment: their results are drawn from small sets.  *)
(***************************************************************************)
EXTENDS Integers, Sequences, FiniteSets, TLC

\* ---------------------------------------------------------------- bounds
\* longest item_list a status response carries
MaxItems == 2
\* longest prompt, in tokens, a direct call of generateImages is given
MaxPromptLen == 2

\* ------------------------------------------------------ program constants
\* images.ts:423
MAX_POLL_RETRIES == 120
\* images.ts:417
FAIL_STATE == 30
\* images.ts:416
PROCESSING_STATES == {20, 42, 45}
\* images.ts:578  (index 0 of the source is position 1 here)
resolutionLevels == <<"2k", "1k">>

\* images.ts:25-34
ASPECT_RATIOS == <<"21:9", "16:9", "3:2", "4:3", "1:1", "3:4", "2:3", "9:16">>
\* images.ts:37-46
RATIO_VALUES ==
  [k \in {"21:9", "16:9", "3:2", "4:3", "1:1", "3:4", "2:3", "9:16"} |->
     CASE k = "21:9" -> 0 [] k = "16:9" -> 1 [] k = "3:2" -> 2 [] k = "4:3" -> 3
       [] k = "1:1" -> 8 [] k = "3:4" -> 4 [] k = "2:3" -> 5 [] k = "9:16" -> 6]
\* images.ts:49-58
DIMENSIONS_1K ==
  [k \in {"21:9", "16:9", "3:2", "4:3", "1:1", "3:4", "2:3", "9:16"} |->
     CASE k = "21:9" -> [width |-> 2016, height |-> 846]
       [] k = "16:9" -> [width |-> 1664, height |-> 936]
       [] k = "3:2" -> [width |-> 1584, height |-> 1056]
       [] k = "4:3" -> [width |-> 1472, height |-> 1104]
       [] k = "1:1" -> [width |-> 1328, height |-> 1328]
       [] k = "3:4" -> [width |-> 1104, height |-> 1472]
       [] k = "2:3" -> [width |-> 1056, height |-> 1584]
       [] k = "9:16" -> [width |-> 936, height |-> 1664]]
\* images.ts:61-70
DIMENSIONS_2K ==
  [k \in {"21:9", "16:9", "3:2", "4:3", "1:1", "3:4", "2:3", "9:16"} |->
     CASE k = "21:9" -> [width |-> 3024, height |-> 1296]
       [] k = "16:9" -> [width |-> 2560, height |-> 1440]
       [] k = "3:2" -> [width |-> 2496, height |-> 1664]
       [] k = "4:3" -> [width |-> 2304, height |-> 1728]
       [] k = "1:1" -> [width |-> 2048, height |-> 2048]
       [] k = "3:4" -> [width |-> 1728, height |-> 2304]
       [] k = "2:3" -> [width |-> 1664, height |-> 2496]
       [] k = "9:16" -> [width |-> 1440, height |-> 2560]]

\* Messages are sequences of tokens; String.prototype.includes is a search
\* for a token.  The Chinese literals of the source are written in pinyin:
\*   "JiFenBuZu"  = the substring the wrapper looks for (images.ts:597)
TOK_INSUFFICIENT == "JiFenBuZu"
\* images.ts:407
MSG_RECORD_ID_MISSING == <<"JiLuID BuCunZai">>
\* images.ts:537
MSG_RECORD_MISSING == <<"JiLu BuCunZai">>
\* images.ts:548
MSG_TIMEOUT == <<"TuXiang ShengCheng ChaoShi">>
\* images.ts:616
MSG_REMEDIATION ==
  <<TOK_INSUFFICIENT, "YiZiDongJiangZhiZuiDiHuaZhi RengRanBuZu",
    "QingQianWang JiMengGuanWang https://jimeng.jianying.com ChongZhiJiFen">>
\* images.ts:625
MSG_FALLTHROUGH == <<"TuXiang ShengCheng ShiBai">>
\* images.ts:148
MSG_UPLOAD_PREFIX == <<"CanKaoTu ShangChuan ShiBai: ">>

\* @/api/consts/exceptions.ts: [code, default message] pairs
EX ==
  [ API_REQUEST_FAILED |-> <<-2001, <<"QingQiu ShiBai">>>>,
    API_CONTENT_FILTERED |-> <<-2006, <<"NeiRong YouYu HeGui WenTi YiBei ZuZhi ShengCheng">>>>,
    API_IMAGE_GENERATION_FAILED |-> <<-2007, <<"TuXiang ShengCheng ShiBai">>>>,
    API_IMAGE_GENERATION_INSUFFICIENT_POINTS |-> <<-2009, <<"JiMeng", TOK_INSUFFICIENT>>>> ]

\* no message argument given to the APIException constructor
NoMsg == <<>>

\* @/lib/exceptions/APIException.ts: new APIException(ex, message?)
APIException(ex, msg) ==
  [ name |-> "APIException",
    code |-> ex[1],
    message |-> IF msg = NoMsg THEN ex[2] ELSE msg ]

\* a runtime TypeError (property read / call on undefined); code 0 = no code
TypeError(what) == [ name |-> "TypeError", code |-> 0, message |-> <<what>> ]

NoError == [ name |-> "none", code |-> 0, message |-> <<>> ]

\* String.prototype.includes on token sequences
includes(message, tok) == \E i \in DOMAIN message : message[i] = tok

\* Array.prototype.indexOf, 0-based, -1 when absent
indexOf(arr, x) ==
  IF \E i \in DOMAIN arr : arr[i] = x
    THEN (CHOOSE i \in DOMAIN arr : arr[i] = x /\ \A j \in 1..(i-1) : arr[j] # x) - 1
    ELSE -1

Max(a, b) == IF a >= b THEN a ELSE b

\* ------------------------------------------------------------ inputs
\* model names a caller passes (MODEL_MAP keys, images.ts:14-21)
Models == {"jimeng-image-4.5", "jimeng-image-2.0-pro"}
\* options.resolution: "" is an absent field, "4k" a value outside the tiers
ResolutionHints == {"", "1k", "2k", "4k"}
\* options.filePath: "" is no reference image
FilePaths == {"", "https://x/ref.png"}

RECURSIVE SeqsUpTo(_, _)
SeqsUpTo(S, n) ==
  IF n = 0 THEN {<<>>}
  ELSE LET shorter == SeqsUpTo(S, n - 1)
       IN shorter \cup {Append(q, x) : q \in {r \in shorter : Len(r) = n - 1}, x \in S}

\* options.ratio: "" is an absent field; "custom" and "5:4" are no supported code
RatioHints ==
  {"", "21:9", "16:9", "3:2", "4:3", "1:1", "3:4", "2:3", "9:16", "custom", "5:4"}

\* A prompt is a sequence of tokens.  A ratio token is one match of the
\* pattern of images.ts:79, with its two digit groups (the colon, half or full
\* width, and the blanks around it are not captured); a text token is any
\* other piece of the prompt, a keyword of images.ts:92-103 or not.
RatioToken(w, h) == [kind |-> "ratio", w |-> w, h |-> h, text |-> ""]
TextToken(t) == [kind |-> "text", w |-> "", h |-> "", text |-> t]
PromptTokens ==
  { RatioToken("16", "9"), RatioToken("3", "4"), RatioToken("5", "4"),
    RatioToken("016", "9"), TextToken("ShuPing"), TextToken("KuanPing"),
    TextToken("ZhengFang"), TextToken("a cat") }

\* the arguments of generateImagesWithRetry other than model and options
CallerPrompts == {<<TextToken("a cat"), RatioToken("16", "9")>>}
CallerRatios == {""}
SampleStrengths == {"0.5"}
NegativePrompts == {"blurry"}
RefreshTokens == {"sessionid-1"}

\* the arguments of a direct call of generateImages (images.ts:111)
DirectModels ==
  {"jimeng-image-4.5", "jimeng-image-4.2", "jimeng-image-3.0", "jimeng-image-2.0-pro"}
DirectPrompts == SeqsUpTo(PromptTokens, MaxPromptLen)

\* what uploadFile resolves to: an image_uri, or a result without one
UploadResults == {"tos-cn-i-ref", ""}
\* what getCredit resolves to (totalCredit)
Credits == {0, 10}

\* errors the collaborators of core.ts reject with
RemoteErrors ==
  { APIException(EX.API_IMAGE_GENERATION_INSUFFICIENT_POINTS, NoMsg),
    APIException(EX.API_REQUEST_FAILED, NoMsg),
    APIException(EX.API_REQUEST_FAILED, <<"fail_code", "2039">>),
    [name |-> "Error", code |-> 0, message |-> <<"ret", "1006">>],
    [name |-> "Error", code |-> 0, message |-> <<"socket hang up">>] }

\* the submission response: aigc_data with an id, with an empty id, or no
\* aigc_data at all
SubmitResponses ==
  { [has_aigc_data |-> TRUE, history_record_id |-> "h1"],
    [has_aigc_data |-> TRUE, history_record_id |-> ""],
    [has_aigc_data |-> FALSE, history_record_id |-> ""] }

\* one result item, reduced to the two fields the mapping reads:
\* image.large_images[0].image_url and common_attr.cover_url ("" = absent)
Items ==
  { [image_url |-> "https://x/img.png", cover_url |-> "https://x/cover.png"],
    [image_url |-> "", cover_url |-> "https://x/cover.png"],
    [image_url |-> "", cover_url |-> ""] }

\* item_list of a response: an array, or undefined (isArray = FALSE)
UndefinedList == [isArray |-> FALSE, items |-> <<>>]
EmptyList == [isArray |-> TRUE, items |-> <<>>]
ItemLists ==
  {[isArray |-> TRUE, items |-> q] : q \in SeqsUpTo(Items, MaxItems)} \cup {UndefinedList}

\* a list of one item, for the responses whose list content is never mapped
OneItemList ==
  [isArray |-> TRUE,
   items |-> <<[image_url |-> "https://x/img.png", cover_url |-> "https://x/cover.png"]>>]

\* status codes the provider reports (images.ts:409-415)
StatusCodes == {20, 42, 45, 50, 21, 30}
\* fail codes the provider reports with status 30; "undefined" = no fail_code
FailCodes == {"2038", "2039", "1006", "0"}

MissingRecord ==
  [present |-> FALSE, status |-> 0, fail_code |-> "undefined", item_list |-> EmptyList]

\* result[historyId] of a status query: absent, or {status, fail_code, item_list}.
\* Every item list comes with one processing status (20) and one finished
\* status (50); the other statuses come with an empty and a one-item list.
StatusResponses ==
  {MissingRecord}
  \cup {[present |-> TRUE, status |-> s, fail_code |-> "undefined", item_list |-> l] :
          s \in {20, 50}, l \in ItemLists}
  \cup {[present |-> TRUE, status |-> s, fail_code |-> "undefined", item_list |-> l] :
          s \in StatusCodes \ {20, 50, FAIL_STATE}, l \in {EmptyList, OneItemList}}
  \cup {[present |-> TRUE, status |-> FAIL_STATE, fail_code |-> f, item_list |-> l] :
          f \in FailCodes, l \in {EmptyList, OneItemList}}

\* ------------------------------------------------- generateImages, pure parts
\* the model names used here that hold the substring "image-4."
HoldsImage4 == {"jimeng-image-4.5", "jimeng-image-4.1", "jimeng-image-4.0", "jimeng-image-4.2"}

\* images.ts:158-162
is4xModel(modelName) ==
  \/ modelName \in HoldsImage4
  \/ modelName \in {"jimeng-image-4.5", "jimeng-image-4.1", "jimeng-image-4.0"}
\* images.ts:163
is2xModel(modelName) == modelName = "jimeng-image-2.0-pro"

\* images.ts:165-176: the tier generateImages submits
ResolveTier(modelName, resolution) ==
  IF is2xModel(modelName) THEN "1k"
  ELSE IF resolution \notin {"1k", "2k"}
         THEN (IF is4xModel(modelName) THEN "2k" ELSE "1k")
         ELSE resolution

\* images.ts:114-120: the defaults of the destructured options; a default
\* applies to an absent ("") field only
WithDefaults(opts) ==
  [ ratio |-> IF opts.ratio = "" THEN "1:1" ELSE opts.ratio,
    resolution |-> IF opts.resolution = "" THEN "2k" ELSE opts.resolution,
    sampleStrength |-> IF opts.sampleStrength = "" THEN "0.5" ELSE opts.sampleStrength,
    negativePrompt |-> opts.negativePrompt,
    filePath |-> opts.filePath ]

\* images.ts:83: the key built from the two digit groups of a match
RatioKey(tok) == tok.w \o ":" \o tok.h

\* String/RegExp test of images.ts:92-103 on a tokenised prompt
HasKeyword(prompt, words) ==
  \E i \in DOMAIN prompt : prompt[i].kind = "text" /\ prompt[i].text \in words

\* images.ts:77-105: "null" when nothing is detected
detectAspectRatioKey(prompt) ==
  LET supported ==
        {i \in DOMAIN prompt :
           prompt[i].kind = "ratio" /\ indexOf(ASPECT_RATIOS, RatioKey(prompt[i])) >= 0}
  IN IF supported # {}
       THEN RatioKey(prompt[CHOOSE i \in supported : \A j \in supported : i <= j])
     ELSE IF HasKeyword(prompt, {"HengPing", "HengBan", "KuanPing"}) THEN "16:9"
     ELSE IF HasKeyword(prompt, {"ShuPing", "ShuBan", "ShouJi"}) THEN "9:16"
     ELSE IF HasKeyword(prompt, {"FangXing", "ZhengFang"}) THEN "1:1"
     ELSE "null"

\* mutant of SelectRatio: a detected code overrides every hint
SelectRatio_PromptFirst(ratio, detectedRatioKey) ==
  IF detectedRatioKey # "null" THEN detectedRatioKey
  ELSE IF ratio \in DOMAIN RATIO_VALUES THEN ratio ELSE "1:1"

\* images.ts:191-201: the ratio code generateImages settles on
SelectRatio(ratio, detectedRatioKey) ==
  LET validRatio == IF ratio \in DOMAIN RATIO_VALUES THEN ratio ELSE "1:1"
  IN IF detectedRatioKey # "null" /\ validRatio = "1:1"
       THEN detectedRatioKey
       ELSE validRatio

\* mutant of dimensionMap: the two tables are taken for one another
dimensionMap_Swapped(resolutionType) ==
  IF resolutionType = "2k" THEN DIMENSIONS_1K ELSE DIMENSIONS_2K

\* images.ts:178
dimensionMap(resolutionType) ==
  IF resolutionType = "2k" THEN DIMENSIONS_2K ELSE DIMENSIONS_1K

Undefined == [defined |-> FALSE, width |-> 0, height |-> 0]

\* images.ts:204: dimensionMap[validRatio], undefined for a key the map lacks
LookupDimensions(resolutionType, validRatio) ==
  IF validRatio \in DOMAIN dimensionMap(resolutionType)
    THEN [ defined |-> TRUE,
           width |-> dimensionMap(resolutionType)[validRatio].width,
           height |-> dimensionMap(resolutionType)[validRatio].height ]
    ELSE Undefined

\* mutant of NeedsReceiveCredit: a balance of exactly 0 gets no top-up
NeedsReceiveCredit_Negative(totalCredit) == totalCredit < 0

\* images.ts:217
NeedsReceiveCredit(totalCredit) == totalCredit <= 0

\* images.ts:224-387: the request envelope, reduced to the shape of
\* abilities that is populated, the generate_type tag, whether metrics_extra
\* is attached, and the geometry of core_param
BuildRequestData(hasFilePath, upID, model4x, resType, ratioKey, dims) ==
  [ abilities |-> IF hasFilePath /\ upID # "" THEN "blend" ELSE "generate",
    generate_type |-> IF hasFilePath THEN "blend" ELSE "generate",
    metrics_extra |-> ~hasFilePath,
    benefitCount |-> IF hasFilePath THEN 0 ELSE IF model4x /\ resType = "2k" THEN 4 ELSE 1,
    image_ratio |-> RATIO_VALUES[ratioKey],
    width |-> dims.width,
    height |-> dims.height,
    resolution_type |-> resType ]

\* images.ts:427  (!item_list || item_list.length === 0)
NoItems(item_list) == ~item_list.isArray \/ Len(item_list.items) = 0

\* mutant of LoopCond: the budget test admits one iteration too many
LoopCond_OffByOne(st, il, rc) ==
  st \in PROCESSING_STATES /\ NoItems(il) /\ rc <= MAX_POLL_RETRIES

\* images.ts:425-429: the while condition
LoopCond(st, il, rc) ==
  st \in PROCESSING_STATES /\ NoItems(il) /\ rc < MAX_POLL_RETRIES

\* mutant of MapItem: the cover URL is preferred to the large-image URL
MapItem_CoverFirst(item) ==
  IF item.cover_url = ""
    THEN (IF item.image_url # "" THEN item.image_url ELSE "null")
    ELSE item.cover_url

\* images.ts:555-559: one result item to its URL
MapItem(item) ==
  IF item.image_url = ""
    THEN (IF item.cover_url # "" THEN item.cover_url ELSE "null")
    ELSE item.image_url

MapItems(items) == [i \in DOMAIN items |-> MapItem(items[i])]

Return(v) == [kind |-> "return", value |-> v, error |-> NoError]
Throw(e) == [kind |-> "throw", value |-> <<>>, error |-> e]
Pending == [kind |-> "none", value |-> <<>>, error |-> NoError]

\* mutant of AfterLoop: the fail state is not tested before the list is mapped
AfterLoop_NoFailTest(st, fc, il, rc) ==
  IF rc >= MAX_POLL_RETRIES
    THEN Throw(APIException(EX.API_IMAGE_GENERATION_FAILED, MSG_TIMEOUT))
  ELSE IF ~il.isArray
    THEN Throw(TypeError("item_list.map"))
  ELSE Return(MapItems(il.items))

\* images.ts:547-559: what generateImages does once the loop is left
AfterLoop(st, fc, il, rc) ==
  IF rc >= MAX_POLL_RETRIES
    THEN Throw(APIException(EX.API_IMAGE_GENERATION_FAILED, MSG_TIMEOUT))
  ELSE IF st = FAIL_STATE
    THEN (IF fc = "2038"
            THEN Throw(APIException(EX.API_CONTENT_FILTERED, NoMsg))
            ELSE Throw(APIException(EX.API_IMAGE_GENERATION_FAILED, NoMsg)))
  ELSE IF ~il.isArray
    THEN Throw(TypeError("item_list.map"))
  ELSE Return(MapItems(il.items))

\* mutant of OnStatusResponse: a response without the record is polled past
OnStatusResponse_IgnoreMissing(r, rc) ==
  IF ~r.present
    THEN (IF rc < MAX_POLL_RETRIES
            THEN Pending
            ELSE Throw(APIException(EX.API_IMAGE_GENERATION_FAILED, MSG_TIMEOUT)))
  ELSE IF LoopCond(r.status, r.item_list, rc)
    THEN Pending
  ELSE AfterLoop(r.status, r.fail_code, r.item_list, rc)

\* images.ts:536-545, 425-429, 547-559: how the loop body ends once the status
\* query has resolved with r, at iteration rc.  Pending = the loop goes on.
OnStatusResponse(r, rc) ==
  IF ~r.present
    THEN Throw(APIException(EX.API_IMAGE_GENERATION_FAILED, MSG_RECORD_MISSING))
  ELSE IF LoopCond(r.status, r.item_list, rc)
    THEN Pending
  ELSE AfterLoop(r.status, r.fail_code, r.item_list, rc)

\* images.ts:405-407: how the submission's response is read
OnSubmitResponse(r) ==
  IF ~r.has_aigc_data
    THEN Throw(TypeError("aigc_data.history_record_id"))
  ELSE IF r.history_record_id = ""
    THEN Throw(APIException(EX.API_IMAGE_GENERATION_FAILED, MSG_RECORD_ID_MISSING))
  ELSE Pending

\* ------------------------------------------- generateImagesWithRetry, pure parts
\* mutant of SpreadOptions: the copy carries the resolution only
SpreadOptions_ResolutionOnly(opts, idx) ==
  [ratio |-> "", resolution |-> resolutionLevels[idx + 1], sampleStrength |-> "",
   negativePrompt |-> "", filePath |-> ""]

\* images.ts:586-589: {...options, resolution: resolutionLevels[idx]}
SpreadOptions(opts, idx) == [opts EXCEPT !.resolution = resolutionLevels[idx + 1]]

\* mutant of StartIndex: the caller's hint is not read
StartIndex_IgnoresHint(resolution) ==
  Max(0, indexOf(resolutionLevels, "2k"))

\* images.ts:579-582
StartIndex(resolution) ==
  Max(0, indexOf(resolutionLevels, IF resolution = "" THEN "2k" ELSE resolution))

\* mutant of isInsufficientCredits: the code is compared with the wrong marker
isInsufficientCredits_WrongMarker(error) ==
  \/ error.code = EX.API_IMAGE_GENERATION_FAILED[1]
  \/ /\ error.message # <<>>
     /\ \/ includes(error.message, TOK_INSUFFICIENT)
        \/ includes(error.message, "2039")
        \/ includes(error.message, "1006")

\* images.ts:594-599
isInsufficientCredits(error) ==
  \/ error.code = EX.API_IMAGE_GENERATION_INSUFFICIENT_POINTS[1]
  \/ /\ error.message # <<>>
     /\ \/ includes(error.message, TOK_INSUFFICIENT)
        \/ includes(error.message, "2039")
        \/ includes(error.message, "1006")

\* mutant of CatchDecision: no downgrade, the first credit failure is final
CatchDecision_NoDowngrade(error, idx) ==
  IF error.code = -2009 \/ includes(error.message, TOK_INSUFFICIENT)
       \/ includes(error.message, "2039") \/ includes(error.message, "1006")
    THEN "throwInsufficient"
    ELSE "rethrow"

\* mutant of CatchDecision: the tier test admits one downgrade too many
CatchDecision_OneTooMany(error, idx) ==
  IF (error.code = -2009 \/ includes(error.message, TOK_INSUFFICIENT)
        \/ includes(error.message, "2039") \/ includes(error.message, "1006"))
    THEN (IF idx < Len(resolutionLevels) THEN "continue" ELSE "throwInsufficient")
    ELSE "rethrow"

\* mutant of CatchDecision: a credit failure always moves on to the next index
CatchDecision_AlwaysContinue(error, idx) ==
  IF error.code = -2009 \/ includes(error.message, TOK_INSUFFICIENT)
       \/ includes(error.message, "2039") \/ includes(error.message, "1006")
    THEN "continue"
    ELSE "rethrow"

\* images.ts:601-621: what the catch block does with an error at tier index idx
CatchDecision(error, idx) ==
  IF isInsufficientCredits(error) /\ idx < Len(resolutionLevels) - 1
    THEN "continue"
  ELSE IF isInsufficientCredits(error)
    THEN "throwInsufficient"
  ELSE "rethrow"

\* ------------------------------------------------------------------ state
VARIABLES
  modelName,        \* _model, the caller's model argument
  prompt,           \* the caller's prompt argument
  options,          \* the caller's options object
  refreshToken,     \* the caller's credential argument
  wpc,              \* generateImagesWithRetry: "start", "awaiting", "done"
                    \*   ("direct": generateImages was called without the wrapper)
  currentResIndex,  \* images.ts:579 (0-based)
  currentOptions,   \* images.ts:586, the options the running attempt received
  passed,           \* images.ts:591, the other arguments the running attempt received
  outcome,          \* how generateImagesWithRetry ended
  pc,               \* generateImages: the await it is suspended at, or "idle"/"done"
  uploadID,         \* images.ts:131
  resolutionType,   \* images.ts:165
  validRatio,       \* images.ts:191
  dimensions,       \* images.ts:204
  totalCredit,      \* images.ts:216, held until the submission has settled
  requestData,      \* images.ts:325, the envelope of the running call
  historyId,        \* images.ts:405
  status,           \* images.ts:419
  failCode,         \* images.ts:420
  item_list,        \* images.ts:421
  retryCount,       \* images.ts:422
  inner,            \* how the running generateImages call ended
  calls,            \* the resolutions generateImages was invoked with, in order
  uploads,          \* uploadFile invocations since the caller's call
  submitted,        \* the geometry of every submission since the caller's call
  queries,          \* status queries issued by the running generateImages call
  responses,        \* status responses received by the running generateImages call
  lastResponse,     \* the latest status response of the running call
  lastSubmit        \* the submission response of the running call

callerArgs == <<modelName, prompt, options, refreshToken>>
wrapperVars ==
  <<modelName, prompt, options, refreshToken, wpc, currentResIndex, currentOptions,
    passed, outcome, calls>>
geometryVars == <<resolutionType, validRatio, dimensions>>
pollVars == <<historyId, status, failCode, item_list, retryCount>>
innerVars ==
  <<pc, uploadID, resolutionType, validRatio, dimensions, totalCredit, requestData,
    historyId, status, failCode, item_list, retryCount, inner, uploads, submitted,
    queries, responses, lastResponse, lastSubmit>>
vars == <<wrapperVars, innerVars>>

NoOptions ==
  [ratio |-> "", resolution |-> "", sampleStrength |-> "", negativePrompt |-> "",
   filePath |-> ""]
NoArgs == [model |-> "", prompt |-> <<>>, refreshToken |-> ""]
NoCredit == [read |-> FALSE, value |-> 0]
NoRequest ==
  [abilities |-> "none", generate_type |-> "none", metrics_extra |-> FALSE,
   benefitCount |-> 0, image_ratio |-> 0, width |-> 0, height |-> 0,
   resolution_type |-> ""]
NoResponse ==
  [present |-> FALSE, status |-> -1, fail_code |-> "undefined", item_list |-> EmptyList]
NoSubmit == [has_aigc_data |-> FALSE, history_record_id |-> "none"]

\* nothing has been called yet
InitFrame ==
  /\ wpc = "start"
  /\ currentResIndex = 0
  /\ currentOptions = NoOptions
  /\ passed = NoArgs
  /\ outcome = Pending
  /\ pc = "idle"
  /\ uploadID = "null"
  /\ resolutionType = ""
  /\ validRatio = ""
  /\ dimensions = Undefined
  /\ totalCredit = NoCredit
  /\ requestData = NoRequest
  /\ historyId = ""
  /\ status = 0
  /\ failCode = "undefined"
  /\ item_list = EmptyList
  /\ retryCount = 0
  /\ inner = Pending
  /\ calls = <<>>
  /\ uploads = 0
  /\ submitted = <<>>
  /\ queries = 0
  /\ responses = 0
  /\ lastResponse = NoResponse
  /\ lastSubmit = NoSubmit

Init ==
  /\ modelName \in Models
  /\ prompt \in CallerPrompts
  /\ options \in [ratio : CallerRatios, resolution : ResolutionHints,
                  sampleStrength : SampleStrengths, negativePrompt : NegativePrompts,
                  filePath : FilePaths]
  /\ refreshToken \in RefreshTokens
  /\ InitFrame

\* ------------------------------------------------------- generateImages
\* the call ends: nothing else of its frame changes
Finish(result) ==
  /\ pc' = "done"
  /\ inner' = result

\* images.ts:153-216: tier, ratio and dimensions are settled, getCredit is called
ResolveGeometry(model, p, opts) ==
  /\ resolutionType' = ResolveTier(model, WithDefaults(opts).resolution)
  /\ validRatio' = SelectRatio(WithDefaults(opts).ratio, detectAspectRatioKey(p))
  /\ dimensions' = LookupDimensions(resolutionType', validRatio')
  /\ IF dimensions'.defined
       THEN pc' = "getCredit" /\ inner' = Pending
       ELSE Finish(Throw(TypeError("dimensions.width")))

\* images.ts:219-392: the envelope is built and the submission is sent
SendRequest ==
  /\ requestData' =
       BuildRequestData(WithDefaults(currentOptions).filePath # "", uploadID,
                        is4xModel(passed.model), resolutionType, validRatio, dimensions)
  /\ submitted' =
       Append(submitted, [resolution_type |-> requestData'.resolution_type,
                          width |-> requestData'.width, height |-> requestData'.height])
  /\ pc' = "submit"

\* images.ts:130-151: a fresh frame, run up to its first await
EnterGenerateImages(model, p, opts) ==
  /\ uploadID' = "null"
  /\ totalCredit' = NoCredit
  /\ requestData' = NoRequest
  /\ historyId' = ""
  /\ status' = 0
  /\ failCode' = "undefined"
  /\ item_list' = EmptyList
  /\ retryCount' = 0
  /\ queries' = 0
  /\ responses' = 0
  /\ lastResponse' = NoResponse
  /\ lastSubmit' = NoSubmit
  /\ submitted' = submitted
  /\ IF WithDefaults(opts).filePath # ""
       THEN /\ pc' = "uploadFile"
            /\ uploads' = uploads + 1
            /\ inner' = Pending
            /\ resolutionType' = "" /\ validRatio' = "" /\ dimensions' = Undefined
       ELSE /\ uploads' = uploads
            /\ ResolveGeometry(model, p, opts)

\* images.ts:141-143, 153-216: uploadFile resolved
UploadReturn(uri) ==
  /\ pc = "uploadFile"
  /\ uploadID' = uri
  /\ ResolveGeometry(passed.model, passed.prompt, currentOptions)
  /\ UNCHANGED <<wrapperVars, pollVars, totalCredit, requestData, uploads, submitted,
                 queries, responses, lastResponse, lastSubmit>>

\* images.ts:144-150: uploadFile rejected
UploadThrow(e) ==
  /\ pc = "uploadFile"
  /\ Finish(Throw(APIException(EX.API_REQUEST_FAILED, MSG_UPLOAD_PREFIX \o e.message)))
  /\ UNCHANGED <<wrapperVars, uploadID, geometryVars, pollVars, totalCredit, requestData,
                 uploads, submitted, queries, responses, lastResponse, lastSubmit>>

\* images.ts:216-217: getCredit resolved
GetCreditReturn(credit) ==
  /\ pc = "getCredit"
  /\ totalCredit' = [read |-> TRUE, value |-> credit]
  /\ IF NeedsReceiveCredit(credit)
       THEN pc' = "receiveCredit" /\ UNCHANGED <<requestData, submitted>>
       ELSE SendRequest
  /\ UNCHANGED <<wrapperVars, uploadID, geometryVars, pollVars, inner, uploads,
                 queries, responses, lastResponse, lastSubmit>>

\* images.ts:216: getCredit rejected
GetCreditThrow(e) ==
  /\ pc = "getCredit"
  /\ Finish(Throw(e))
  /\ UNCHANGED <<wrapperVars, uploadID, geometryVars, pollVars, totalCredit, requestData,
                 uploads, submitted, queries, responses, lastResponse, lastSubmit>>

\* images.ts:217-392: receiveCredit resolved, the request is built and sent
ReceiveCreditReturn ==
  /\ pc = "receiveCredit"
  /\ SendRequest
  /\ UNCHANGED <<wrapperVars, uploadID, geometryVars, pollVars, totalCredit, inner,
                 uploads, queries, responses, lastResponse, lastSubmit>>

\* images.ts:217: receiveCredit rejected
ReceiveCreditThrow(e) ==
  /\ pc = "receiveCredit"
  /\ Finish(Throw(e))
  /\ UNCHANGED <<wrapperVars, uploadID, geometryVars, pollVars, totalCredit, requestData,
                 uploads, submitted, queries, responses, lastResponse, lastSubmit>>

\* images.ts:392-430: the submission resolved
SubmitReturn(r) ==
  /\ pc = "submit"
  /\ lastSubmit' = r
  /\ totalCredit' = NoCredit
  /\ IF OnSubmitResponse(r).kind = "throw"
       THEN /\ Finish(OnSubmitResponse(r))
            /\ UNCHANGED <<historyId, status, failCode, item_list, retryCount>>
       ELSE /\ historyId' = r.history_record_id
            /\ status' = 20
            /\ failCode' = "undefined"
            /\ item_list' = EmptyList
            /\ retryCount' = 0
            /\ IF LoopCond(20, EmptyList, 0)
                 THEN pc' = "sleep" /\ inner' = inner
                 ELSE Finish(AfterLoop(20, "undefined", EmptyList, 0))
  /\ UNCHANGED <<wrapperVars, uploadID, geometryVars, requestData, uploads, submitted,
                 queries, responses, lastResponse>>

\* images.ts:392: the submission rejected
SubmitThrow(e) ==
  /\ pc = "submit"
  /\ totalCredit' = NoCredit
  /\ Finish(Throw(e))
  /\ UNCHANGED <<wrapperVars, uploadID, geometryVars, pollVars, requestData, uploads,
                 submitted, queries, responses, lastResponse, lastSubmit>>

\* images.ts:430-432: the 1 s timer fired, the status query is sent
SleepDone ==
  /\ pc = "sleep"
  /\ retryCount' = retryCount + 1
  /\ queries' = queries + 1
  /\ pc' = "poll"
  /\ UNCHANGED <<wrapperVars, uploadID, geometryVars, totalCredit, requestData,
                 historyId, status, failCode, item_list, inner, uploads, submitted,
                 responses, lastResponse, lastSubmit>>

\* images.ts:536-559, 425-429: the status query resolved
PollReturn(r) ==
  /\ pc = "poll"
  /\ lastResponse' = r
  /\ responses' = responses + 1
  /\ IF r.present
       THEN status' = r.status /\ failCode' = r.fail_code /\ item_list' = r.item_list
       ELSE UNCHANGED <<status, failCode, item_list>>
  /\ IF OnStatusResponse(r, retryCount).kind = "none"
       THEN pc' = "sleep" /\ inner' = inner
       ELSE Finish(OnStatusResponse(r, retryCount))
  /\ UNCHANGED <<wrapperVars, uploadID, geometryVars, totalCredit, requestData,
                 historyId, retryCount, uploads, submitted, queries, lastSubmit>>

\* images.ts:432: the status query rejected
PollThrow(e) ==
  /\ pc = "poll"
  /\ Finish(Throw(e))
  /\ UNCHANGED <<wrapperVars, uploadID, geometryVars, pollVars, totalCredit, requestData,
                 uploads, submitted, queries, responses, lastResponse, lastSubmit>>

\* images.ts:111-128: generateImages is called by itself, with the caller's
\* arguments as they are
DirectCall ==
  /\ wpc = "start" /\ pc = "idle"
  /\ wpc' = "direct"
  /\ currentOptions' = options
  /\ passed' = [model |-> modelName, prompt |-> prompt, refreshToken |-> refreshToken]
  /\ EnterGenerateImages(modelName, prompt, options)
  /\ UNCHANGED <<callerArgs, currentResIndex, outcome, calls>>

\* ---------------------------------------------- generateImagesWithRetry
\* images.ts:584-591, 625: the while head at tier index idx
WhileHead(idx) ==
  IF idx < Len(resolutionLevels)
    THEN /\ currentOptions' = SpreadOptions(options, idx)
         /\ passed' = [model |-> modelName, prompt |-> prompt,
                       refreshToken |-> refreshToken]
         /\ calls' = Append(calls, currentOptions'.resolution)
         /\ wpc' = "awaiting"
         /\ outcome' = outcome
         /\ EnterGenerateImages(modelName, prompt, currentOptions')
    ELSE /\ wpc' = "done"
         /\ outcome' = Throw(APIException(EX.API_IMAGE_GENERATION_FAILED, MSG_FALLTHROUGH))
         /\ UNCHANGED <<currentOptions, passed, calls, innerVars>>

\* images.ts:578-591: the call of generateImagesWithRetry
Call ==
  /\ wpc = "start"
  /\ currentResIndex' = StartIndex(options.resolution)
  /\ WhileHead(currentResIndex')
  /\ UNCHANGED callerArgs

\* images.ts:591: the attempt resolved
WrapperReturn ==
  /\ wpc = "awaiting" /\ pc = "done" /\ inner.kind = "return"
  /\ outcome' = Return(inner.value)
  /\ wpc' = "done"
  /\ UNCHANGED <<callerArgs, currentResIndex, currentOptions, passed, calls, innerVars>>

\* images.ts:592-622: the attempt rejected
WrapperCatch ==
  /\ wpc = "awaiting" /\ pc = "done" /\ inner.kind = "throw"
  /\ LET d == CatchDecision(inner.error, currentResIndex) IN
       IF d = "continue"
         THEN /\ currentResIndex' = currentResIndex + 1
              /\ WhileHead(currentResIndex')
         ELSE /\ outcome' =
                   IF d = "throwInsufficient"
                     THEN Throw(APIException(EX.API_IMAGE_GENERATION_INSUFFICIENT_POINTS,
                                             MSG_REMEDIATION))
                     ELSE Throw(inner.error)
              /\ wpc' = "done"
              /\ UNCHANGED <<currentResIndex, currentOptions, passed, calls, innerVars>>
  /\ UNCHANGED callerArgs

Next ==
  \/ Call
  \/ \E uri \in UploadResults : UploadReturn(uri)
  \/ \E e \in RemoteErrors : UploadThrow(e)
  \/ \E c \in Credits : GetCreditReturn(c)
  \/ \E e \in RemoteErrors : GetCreditThrow(e)
  \/ ReceiveCreditReturn
  \/ \E e \in RemoteErrors : ReceiveCreditThrow(e)
  \/ \E r \in SubmitResponses : SubmitReturn(r)
  \/ \E e \in RemoteErrors : SubmitThrow(e)
  \/ SleepDone
  \/ \E r \in StatusResponses : PollReturn(r)
  \/ \E e \in RemoteErrors : PollThrow(e)
  \/ WrapperReturn
  \/ WrapperCatch

Spec == Init /\ [][Next]_vars

\* ------------------------------------------- generateImages called directly
\* every model, prompt, ratio hint and resolution hint, without a reference image
InitDirect ==
  /\ modelName \in DirectModels
  /\ prompt \in DirectPrompts
  /\ options \in [ratio : RatioHints, resolution : ResolutionHints,
                  sampleStrength : SampleStrengths, negativePrompt : NegativePrompts,
                  filePath : {""}]
  /\ refreshToken \in RefreshTokens
  /\ InitFrame

\* the direct call, followed up to the submission of its request
NextDirect ==
  \/ DirectCall
  \/ \E c \in Credits : GetCreditReturn(c)
  \/ ReceiveCreditReturn

SpecDirect == InitDirect /\ [][NextDirect]_vars

\* ================================================================ claims
\* The insufficient-credits signature of spec 4.5: the dedicated error marker,
\* or a message that names insufficient credits or a known balance code.
CreditSignature(e) ==
  \/ e.name = "APIException" /\ e.code = -2009
  \/ \E i \in 1..Len(e.message) : e.message[i] \in {TOK_INSUFFICIENT, "2039", "1006"}

\* a status response that leaves the job in progress
StillProcessing(r) ==
  /\ r.present
  /\ r.status \in {20, 42, 45}
  /\ (~r.item_list.isArray \/ r.item_list.items = <<>>)

TimeoutError == APIException(EX.API_IMAGE_GENERATION_FAILED, MSG_TIMEOUT)

\* the wrapper is about to handle the settled attempt
AttemptSettled == wpc = "awaiting" /\ pc = "done"

\* C1: one run of generateImages issues at most 120 status queries; it polls
\* on only while every response so far left the job in progress (in the
\* processing set, no result item), stops at the first response that does not,
\* and when all 120 responses leave the job in progress it ends, after exactly
\* 120 queries, with the timeout failure.
C1_PollingBounded ==
  /\ queries <= 120
  /\ responses <= queries
  /\ (pc \in {"sleep", "poll"} /\ responses > 0) => StillProcessing(lastResponse)
  /\ (responses > 0 /\ ~StillProcessing(lastResponse)) => pc = "done"
  /\ (responses = queries /\ responses > 0 /\ StillProcessing(lastResponse))
       => IF queries < 120
            THEN pc = "sleep"
            ELSE pc = "done" /\ queries = 120 /\ inner = Throw(TimeoutError)

\* C1 witness: 120 queries, each answered "still processing", ended in the timeout
C1_Witness ==
  /\ pc = "done" /\ queries = 120 /\ responses = 120
  /\ StillProcessing(lastResponse)
  /\ inner = Throw(TimeoutError)

\* C2: a call that starts at "2k" and whose first attempt fails with the
\* insufficient-credits signature starts a second attempt at "1k", and only
\* then; when that attempt returns L the call returns exactly L, the inner
\* pipeline having been invoked exactly twice, with "2k" and then "1k".
C2_DowngradeThenSucceed ==
  /\ [][ (AttemptSettled /\ calls = <<"2k">> /\ inner.kind = "throw"
            /\ CreditSignature(inner.error))
           => (calls' = <<"2k", "1k">> /\ wpc' = "awaiting" /\ pc' \notin {"idle", "done"}
                 /\ currentOptions'.resolution = "1k" /\ inner'.kind = "none") ]_vars
  /\ [][ (Len(calls') = 2 /\ Len(calls) < 2)
           => (AttemptSettled /\ calls = <<"2k">> /\ inner.kind = "throw"
                 /\ CreditSignature(inner.error)) ]_vars
  /\ [][ (AttemptSettled /\ calls = <<"2k", "1k">> /\ inner.kind = "return")
           => (wpc' = "done" /\ outcome' = Return(inner.value) /\ calls' = calls) ]_vars
  /\ []( (wpc = "done" /\ outcome.kind = "return" /\ Len(calls) = 2)
           => (calls = <<"2k", "1k">> /\ inner.kind = "return"
                 /\ outcome.value = inner.value) )

\* C2 witness: the call returned the second attempt's list after a downgrade
C2_Witness ==
  /\ wpc = "done" /\ calls = <<"2k", "1k">>
  /\ outcome.kind = "return" /\ outcome.value = <<"https://x/img.png">>

\* the tiers a call that never succeeds walks through, from its starting tier
TiersFrom(hint) == IF hint = "1k" THEN <<"1k">> ELSE <<"2k", "1k">>

\* C3: when the attempts fail with the insufficient-credits signature down
\* to the lowest tier, the call fails with InsufficientCredits and the
\* remediation text after exactly one invocation per tier from the starting
\* tier downwards; no call invokes the inner pipeline more than twice.
C3_AllTiersInsufficient ==
  /\ Len(calls) <= 2
  /\ (wpc = "done" /\ inner.kind = "throw" /\ CreditSignature(inner.error))
       => /\ outcome.kind = "throw"
          /\ outcome.error.name = "APIException"
          /\ outcome.error.code = -2009
          /\ outcome.error.message = MSG_REMEDIATION
          /\ calls = TiersFrom(options.resolution)

\* C3 witness: both tiers tried, the call failed with InsufficientCredits
C3_Witness ==
  /\ wpc = "done" /\ calls = <<"2k", "1k">>
  /\ CreditSignature(inner.error)
  /\ outcome.kind = "throw" /\ outcome.error.code = -2009

\* the failures generateImages raises itself
ContentFilteredError == APIException(EX.API_CONTENT_FILTERED, NoMsg)
RecordMissingError == APIException(EX.API_IMAGE_GENERATION_FAILED, MSG_RECORD_MISSING)
GenerationFailedError == APIException(EX.API_IMAGE_GENERATION_FAILED, NoMsg)
OwnFailures ==
  {ContentFilteredError, TimeoutError, RecordMissingError, GenerationFailedError}

\* C4: an attempt that fails without the insufficient-credits signature, and
\* in particular with ContentFiltered, the polling timeout, a missing record
\* or a generic GenerationFailed, ends the call: no further attempt is made
\* at any tier and the call fails with that very error.
C4_OtherFailuresPropagate ==
  /\ [][ (AttemptSettled /\ inner.kind = "throw"
            /\ (~CreditSignature(inner.error) \/ inner.error \in OwnFailures))
           => (wpc' = "done" /\ outcome' = Throw(inner.error) /\ calls' = calls
                 /\ pc' = "done" /\ queries' = queries) ]_vars
  /\ []( (wpc = "done" /\ inner.kind = "throw" /\ ~CreditSignature(inner.error))
           => outcome = Throw(inner.error) )

\* C4 witness: a first attempt at "2k" was content-filtered and the call ended with it
C4_Witness ==
  /\ wpc = "done" /\ calls = <<"2k">>
  /\ inner = Throw(ContentFilteredError)
  /\ outcome = Throw(ContentFilteredError)

\* a status response was the last thing the running call saw
EndedByResponse == pc = "done" /\ responses = queries /\ responses > 0

\* C5: generateImages fails with the timeout error only when the last status
\* response still left the job in progress; a terminal response, on any query
\* up to and including the 120th, is never answered with the timeout.
C5_TimeoutOnlyWhileProcessing ==
  /\ (pc = "done" /\ inner = Throw(TimeoutError)) => StillProcessing(lastResponse)
  /\ (EndedByResponse /\ lastResponse.present /\ ~StillProcessing(lastResponse))
       => inner # Throw(TimeoutError)

\* C6: a status response without an entry for the job, at any iteration, ends
\* generateImages at once with the GenerationFailed-kind error; no further
\* status query is issued and generateImagesWithRetry makes no further attempt.
C6_MissingRecordIsFinal ==
  /\ []( (responses > 0 /\ ~lastResponse.present)
           => /\ pc = "done"
              /\ responses = queries
              /\ inner = Throw(RecordMissingError)
              /\ inner.error.code = -2007
              /\ (wpc = "done" => outcome = Throw(RecordMissingError)) )
  /\ [][ (responses > 0 /\ ~lastResponse.present)
           => /\ queries' = queries
              /\ calls' = calls
              /\ wpc' = "done" ]_vars

\* C6 witness: the very first status response lacked the record and the call ended
C6_Witness ==
  /\ wpc = "done" /\ calls = <<"2k">>
  /\ responses = 1 /\ queries = 1 /\ ~lastResponse.present
  /\ outcome = Throw(RecordMissingError)

\* C7: a job whose last status is 30 makes generateImages fail, with
\* ContentFiltered when the fail code is "2038" and with GenerationFailed for
\* every other fail code; it never returns URLs.
C7_FailStateClassified ==
  (EndedByResponse /\ lastResponse.present /\ lastResponse.status = 30)
    => /\ inner.kind = "throw"
       /\ inner.error.name = "APIException"
       /\ inner.error.code = (IF lastResponse.fail_code = "2038" THEN -2006 ELSE -2007)

\* C8 as stated: generateImages returns only with a last status outside the
\* processing set and at least one result item, so every returned list is
\* non-empty.
C8_ReturnsOnlyNonEmpty ==
  /\ (pc = "done" /\ inner.kind = "return")
       => /\ lastResponse.status \notin {20, 42, 45}
          /\ Len(lastResponse.item_list.items) >= 1
          /\ inner.value # <<>>
  /\ (wpc = "done" /\ outcome.kind = "return") => outcome.value # <<>>

\* C8 amended: generateImages returns only when the last status response has
\* a status other than 30 and either a status outside the processing set or at
\* least one result item; the returned list has one entry per result item of
\* that response (none when a finished status comes with an empty list), and
\* generateImagesWithRetry returns that same list.
C8_ReturnCondition ==
  /\ (pc = "done" /\ inner.kind = "return")
       => /\ responses = queries /\ responses >= 1
          /\ lastResponse.present
          /\ lastResponse.status # 30
          /\ (lastResponse.status \notin {20, 42, 45}
                \/ Len(lastResponse.item_list.items) >= 1)
          /\ lastResponse.item_list.isArray
          /\ Len(inner.value) = Len(lastResponse.item_list.items)
  /\ (wpc = "done" /\ outcome.kind = "return")
       => inner.kind = "return" /\ outcome.value = inner.value

\* C8 witness: a finished status with an empty result list was returned as []
C8_Witness ==
  /\ wpc = "done" /\ outcome = Return(<<>>)
  /\ lastResponse.present /\ lastResponse.status = 50
  /\ lastResponse.item_list = EmptyList

\* the URL the spec assigns to a result item
ExpectedUrl(item) ==
  CASE item.image_url # "" -> item.image_url
    [] item.image_url = "" /\ item.cover_url # "" -> item.cover_url
    [] OTHER -> "null"

\* C9: the list generateImages returns has one entry per result item of the
\* final response, in the response's order: the item's large-image URL if
\* present, else its cover URL if present, else null.  A failed call returns
\* no list.
C9_ReturnedUrls ==
  /\ (pc = "done" /\ inner.kind = "return")
       => /\ Len(inner.value) = Len(lastResponse.item_list.items)
          /\ \A i \in 1..Len(inner.value) :
               inner.value[i] = ExpectedUrl(lastResponse.item_list.items[i])
  /\ (pc = "done" /\ inner.kind # "return") => inner.value = <<>>
  /\ (wpc = "done" /\ outcome.kind # "return") => outcome.value = <<>>

\* C9 witness: two items, the first with a large-image URL, the second with
\* a cover URL only, returned in that order
C9_Witness ==
  /\ pc = "done" /\ inner.kind = "return"
  /\ Len(lastResponse.item_list.items) = 2
  /\ inner.value = <<"https://x/img.png", "https://x/cover.png">>

\* C10: a submission response without a job id, whether the id is empty or
\* the enclosing aigc_data is absent, makes generateImages fail with
\* GenerationFailed before any status query.
C10_NoJobIdFails ==
  (pc = "done" /\ lastSubmit # NoSubmit
     /\ (~lastSubmit.has_aigc_data \/ lastSubmit.history_record_id = ""))
    => /\ inner.kind = "throw"
       /\ inner.error.name = "APIException"
       /\ inner.error.code = -2007
       /\ queries = 0

\* the running attempt was given a reference image and its upload was rejected
UploadRejected ==
  pc = "done" /\ currentOptions.filePath # "" /\ uploadID = "null" /\ inner.kind = "throw"

\* C11: when a reference image is supplied and the upload is rejected, with
\* any error, the attempt fails at once with APIRequestFailed: the credit
\* probe, the top-up, the submission and the status query are never called,
\* and generateImagesWithRetry does not retry: one inner invocation, one
\* upload, and the call fails with that APIRequestFailed error.
C11_UploadFailureIsFinal ==
  UploadRejected
    => /\ inner.error.name = "APIException"
       /\ inner.error.code = -2001
       /\ ~totalCredit.read
       /\ requestData = NoRequest /\ submitted = <<>> /\ lastSubmit = NoSubmit
       /\ queries = 0
       /\ Len(calls) = 1
       /\ uploads = 1
       /\ (wpc = "done" => outcome = Throw(inner.error))

\* C12: the first inner attempt runs at "1k" for the hint "1k" and at "2k"
\* for the hint "2k", for an absent hint and for a hint outside the tier list;
\* the tier index never decreases and every attempt runs at the tier of the
\* index, so a call that starts at "1k" never attempts "2k" and, when its
\* attempt fails with the insufficient-credits signature, fails with
\* InsufficientCredits after exactly one inner invocation.
C12_StartTier ==
  /\ []( Len(calls) >= 1
           => calls[1] = (CASE options.resolution = "1k" -> "1k"
                            [] options.resolution = "2k" -> "2k"
                            [] OTHER -> "2k") )
  /\ [][ currentResIndex' >= currentResIndex ]_vars
  /\ []( wpc = "awaiting"
           => /\ currentOptions.resolution = <<"2k", "1k">>[currentResIndex + 1]
              /\ calls[Len(calls)] = currentOptions.resolution )
  /\ []( options.resolution = "1k" => \A i \in DOMAIN calls : calls[i] = "1k" )
  /\ []( (options.resolution = "1k" /\ wpc = "done" /\ inner.kind = "throw"
            /\ CreditSignature(inner.error))
           => /\ calls = <<"1k">>
              /\ outcome.kind = "throw"
              /\ outcome.error.name = "APIException"
              /\ outcome.error.code = -2009 )

\* C12 witness: a call with the hint "1k" failed with InsufficientCredits
\* after its only attempt, at "1k", met the insufficient-credits signature
C12_Witness ==
  /\ options.resolution = "1k" /\ wpc = "done" /\ calls = <<"1k">>
  /\ inner.kind = "throw" /\ CreditSignature(inner.error)
  /\ outcome.kind = "throw" /\ outcome.error.code = -2009

\* the eight aspect codes of the spec
SupportedCodes == {"21:9", "16:9", "3:2", "4:3", "1:1", "3:4", "2:3", "9:16"}

\* the code a ratio token of the prompt spells
Spelled(tok) == tok.w \o ":" \o tok.h

\* what the spec's detection yields: the first numeric W:H token that is a
\* supported code, otherwise the first keyword group present in the order
\* landscape, portrait, square; "null" when there is neither
ExpectedDetection(p) ==
  LET hits == {i \in 1..Len(p) : p[i].kind = "ratio" /\ Spelled(p[i]) \in SupportedCodes}
      has(words) == \E i \in 1..Len(p) : p[i].kind = "text" /\ p[i].text \in words
  IN CASE hits # {} -> Spelled(p[CHOOSE i \in hits : \A j \in hits : i <= j])
       [] hits = {} /\ has({"HengPing", "HengBan", "KuanPing"}) -> "16:9"
       [] hits = {} /\ ~has({"HengPing", "HengBan", "KuanPing"})
            /\ has({"ShuPing", "ShuBan", "ShouJi"}) -> "9:16"
       [] hits = {} /\ ~has({"HengPing", "HengBan", "KuanPing"})
            /\ ~has({"ShuPing", "ShuBan", "ShouJi"})
            /\ has({"FangXing", "ZhengFang"}) -> "1:1"
       [] OTHER -> "null"

\* generateImages, called directly, has settled its geometry
GeometrySettled == wpc = "direct" /\ pc \in {"getCredit", "receiveCredit", "submit"}

\* C13: in generateImages a ratio hint that is one of the eight supported
\* codes other than "1:1" is the resolved ratio whatever the prompt holds; with
\* the hint "1:1", no hint or an unsupported hint the resolved ratio is the
\* code detected in the prompt (the first numeric W:H token that is a supported
\* code, otherwise the keyword group) when there is one, and "1:1" when not.
C13_RatioSelection ==
  GeometrySettled
    => validRatio =
         (IF options.ratio \in SupportedCodes \ {"1:1"}
            THEN options.ratio
          ELSE IF ExpectedDetection(prompt) # "null"
            THEN ExpectedDetection(prompt)
          ELSE "1:1")

\* C13 witness: the hint "4:3" won over a prompt that spells 16:9
C13_Witness ==
  /\ GeometrySettled
  /\ options.ratio = "4:3"
  /\ \E i \in 1..Len(prompt) : prompt[i] = RatioToken("16", "9")
  /\ validRatio = "4:3"

\* C13, second case reached: the hint "1:1" was overridden by a portrait keyword
\* that follows an unsupported W:H token
C13_DetectedOverridesDefault ==
  /\ GeometrySettled
  /\ options.ratio = "1:1"
  /\ prompt = <<RatioToken("5", "4"), TextToken("ShuPing")>>
  /\ validRatio = "9:16"

\* the 4.x models among the model names used here
NewerModels == {"jimeng-image-4.5", "jimeng-image-4.2", "jimeng-image-4.1", "jimeng-image-4.0"}

\* C14: in generateImages the tier is "1k" for jimeng-image-2.0-pro whatever
\* the hint; for every other model it is the resolution hint when the hint is
\* "1k" or "2k", and with no hint or any other hint it is "2k" for a 4.x
\* model and "1k" for an older one.
C14_TierSelection ==
  GeometrySettled
    => resolutionType =
         (IF modelName = "jimeng-image-2.0-pro" THEN "1k"
          ELSE IF options.resolution \in {"1k", "2k"} THEN options.resolution
          ELSE IF modelName \in NewerModels THEN "2k"
          ELSE "1k")

\* the sixteen fixed pairs of the spec: <<ratio code, tier, width, height>>
FixedPairs ==
  { <<"21:9", "1k", 2016, 846>>,  <<"21:9", "2k", 3024, 1296>>,
    <<"16:9", "1k", 1664, 936>>,  <<"16:9", "2k", 2560, 1440>>,
    <<"3:2", "1k", 1584, 1056>>,  <<"3:2", "2k", 2496, 1664>>,
    <<"4:3", "1k", 1472, 1104>>,  <<"4:3", "2k", 2304, 1728>>,
    <<"1:1", "1k", 1328, 1328>>,  <<"1:1", "2k", 2048, 2048>>,
    <<"3:4", "1k", 1104, 1472>>,  <<"3:4", "2k", 1728, 2304>>,
    <<"2:3", "1k", 1056, 1584>>,  <<"2:3", "2k", 1664, 2496>>,
    <<"9:16", "1k", 936, 1664>>,  <<"9:16", "2k", 1440, 2560>> }

\* the ratio codes of the provider: image_ratio of the request to its aspect code
CodeOfImageRatio(n) ==
  CASE n = 0 -> "21:9" [] n = 1 -> "16:9" [] n = 2 -> "3:2" [] n = 3 -> "4:3"
    [] n = 8 -> "1:1" [] n = 4 -> "3:4" [] n = 5 -> "2:3" [] n = 6 -> "9:16"
    [] OTHER -> "none"

\* C15: whatever the model name, the prompt, the ratio hint and the resolution
\* hint, generateImages never fails on the dimension lookup, and the geometry
\* it settles on and submits has one of the eight ratio codes, a tier of "1k"
\* or "2k", and exactly the width and height the fixed table gives for that
\* ratio and tier.
C15_GeometryFromTable ==
  /\ (wpc = "direct" /\ pc # "idle")
       => /\ pc # "done"
          /\ dimensions.defined
          /\ validRatio \in SupportedCodes
          /\ resolutionType \in {"1k", "2k"}
          /\ <<validRatio, resolutionType, dimensions.width, dimensions.height>>
               \in FixedPairs
  /\ (wpc = "direct" /\ pc = "submit")
       => /\ <<CodeOfImageRatio(requestData.image_ratio), requestData.resolution_type,
               requestData.width, requestData.height>> \in FixedPairs
          /\ CodeOfImageRatio(requestData.image_ratio) = validRatio
          /\ requestData.resolution_type = resolutionType

\* C15 witness: an unsupported ratio hint and an out-of-range resolution hint,
\* a prompt that yields 9:16 with a 4.x model, submitted as 1440 x 2560 at "2k"
C15_Witness ==
  /\ wpc = "direct" /\ pc = "submit"
  /\ options.ratio = "custom" /\ options.resolution = "4k"
  /\ requestData.image_ratio = 6 /\ requestData.resolution_type = "2k"
  /\ requestData.width = 1440 /\ requestData.height = 2560

\* tier b is strictly lower than tier a
StrictlyLower(b, a) == a = "2k" /\ b = "1k"

\* C16: whenever a second attempt, made after an insufficient-credits
\* failure, submits a request, the tier of that request (its resolution_type
\* and its dimensions) is strictly lower than the tier the first attempt
\* submitted, for every model.
C16_SecondSubmissionLower ==
  (Len(calls) = 2 /\ Len(submitted) = 2)
    => /\ StrictlyLower(submitted[2].resolution_type, submitted[1].resolution_type)
       /\ submitted[2].width < submitted[1].width
       /\ submitted[2].height < submitted[1].height

\* the attempt is suspended at a remote call (the only one outstanding: an
\* attempt waits at one place at a time)
AtRemoteCall == pc \in {"uploadFile", "getCredit", "receiveCredit", "submit", "poll"}

\* no attempt is running
BetweenAttempts == pc \in {"idle", "done"}

\* C17: in every attempt the remote calls are issued one at a time in the
\* order uploadFile (only with a reference image), getCredit, receiveCredit,
\* submission, status queries.  The submission is issued only after getCredit
\* has returned; receiveCredit is called exactly when getCredit reported a
\* balance of 0 or less, once and before the submission; after it the attempt
\* goes on to the submission and never back to getCredit.
C17_RemoteCallOrder ==
  /\ [][ pc' # pc
           => CASE pc' = "uploadFile" ->
                     BetweenAttempts /\ currentOptions'.filePath # ""
                [] pc' = "getCredit" ->
                     \/ pc = "uploadFile" /\ currentOptions.filePath # ""
                     \/ BetweenAttempts /\ currentOptions'.filePath = ""
                [] pc' = "receiveCredit" ->
                     pc = "getCredit" /\ totalCredit'.read /\ totalCredit'.value <= 0
                [] pc' = "submit" ->
                     \/ pc = "getCredit" /\ totalCredit'.read /\ totalCredit'.value > 0
                     \/ pc = "receiveCredit" /\ totalCredit' = totalCredit
                [] pc' = "sleep" -> pc \in {"submit", "poll"}
                [] pc' = "poll" -> pc = "sleep" /\ queries' = queries + 1
                [] OTHER -> pc' = "done" /\ AtRemoteCall ]_vars
  /\ [][ (pc = "getCredit" /\ totalCredit'.read)
           => /\ (pc' = "receiveCredit") <=> (totalCredit'.value <= 0)
              /\ (pc' = "submit") <=> (totalCredit'.value > 0) ]_vars
  /\ [][ Len(submitted') # Len(submitted)
           => /\ pc \in {"getCredit", "receiveCredit"} /\ pc' = "submit"
              /\ Len(submitted') = Len(submitted) + 1 ]_vars
  /\ []( pc = "receiveCredit" => (totalCredit.read /\ totalCredit.value <= 0) )
  /\ []( pc = "submit" => (totalCredit.read /\ requestData # NoRequest) )
  /\ []( pc \in {"uploadFile", "getCredit", "receiveCredit"}
           => (requestData = NoRequest /\ lastSubmit = NoSubmit /\ queries = 0) )
  /\ []( queries > 0 => (lastSubmit # NoSubmit /\ requestData # NoRequest) )
  /\ []( (pc \in {"getCredit", "receiveCredit", "submit"} /\ currentOptions.filePath # "")
           => uploadID # "null" )

\* C17 witness: with a reference image, the upload returned, getCredit
\* reported 0, receiveCredit returned and the submission is outstanding
C17_Witness ==
  /\ pc = "submit"
  /\ currentOptions.filePath # "" /\ uploadID = "tos-cn-i-ref"
  /\ totalCredit = [read |-> TRUE, value |-> 0]
  /\ requestData # NoRequest /\ queries = 0

\* an options object with its resolution field left out
WithoutResolution(o) ==
  [ratio |-> o.ratio, sampleStrength |-> o.sampleStrength,
   negativePrompt |-> o.negativePrompt, filePath |-> o.filePath]

\* C18: over the attempts of one call of generateImagesWithRetry only the
\* resolution handed to generateImages changes: model, prompt, credential,
\* ratio, sampleStrength, negativePrompt and reference image are the caller's
\* in every attempt, and the caller's options object, its resolution field
\* included, is the same when the call returns or fails as when it was made.
C18_OnlyResolutionChanges ==
  /\ [][ /\ options' = options
         /\ modelName' = modelName
         /\ prompt' = prompt
         /\ refreshToken' = refreshToken ]_vars
  /\ []( wpc \in {"awaiting", "done"}
           => /\ passed.model = modelName
              /\ passed.prompt = prompt
              /\ passed.refreshToken = refreshToken
              /\ WithoutResolution(currentOptions) = WithoutResolution(options)
              /\ currentOptions.resolution = calls[Len(calls)] )
  /\ [][ (Len(calls) >= 1 /\ Len(calls') = Len(calls) + 1)
           => /\ passed' = passed
              /\ WithoutResolution(currentOptions') = WithoutResolution(currentOptions)
              /\ currentOptions'.resolution # currentOptions.resolution ]_vars

\* C18 witness: a call without a resolution hint and with a reference image
\* ended after two attempts; the second ran with the caller's arguments and "1k"
C18_Witness ==
  /\ wpc = "done" /\ calls = <<"2k", "1k">>
  /\ options.resolution = "" /\ options.filePath # ""
  /\ options.negativePrompt = "blurry"
  /\ currentOptions.resolution = "1k"
  /\ WithoutResolution(currentOptions) = WithoutResolution(options)

\* C19: every envelope that is submitted has exactly one of the two ability
\* shapes populated; it is the blend shape exactly when a reference image was
\* supplied, the generate_type tag names the populated shape, and the metrics
\* metadata is attached exactly when the generate shape is populated; this for
\* every result of uploadFile, one without an image URI included.
C19_EnvelopeShape ==
  requestData # NoRequest
    => /\ requestData.abilities \in {"blend", "generate"}
       /\ (requestData.abilities = "blend") <=> (currentOptions.filePath # "")
       /\ requestData.generate_type = requestData.abilities
       /\ requestData.metrics_extra <=> (requestData.abilities = "generate")

\* the last status response reported the fail state with a balance fail code
FailedForBalance ==
  /\ EndedByResponse
  /\ lastResponse.present
  /\ lastResponse.status = 30
  /\ lastResponse.fail_code \in {"2039", "1006"}

\* C20: when a job reaches status 30 with fail code 2039 or 1006 the wrapper
\* takes the failure for insufficient credits: with a lower tier left it
\* starts the next attempt there, and at the lowest tier it fails with
\* InsufficientCredits; so a call never ends on such a failure at "2k", nor
\* with any other error.
C20_BalanceFailCodeDowngrades ==
  (wpc = "done" /\ FailedForBalance)
    => /\ calls[Len(calls)] = "1k"
       /\ outcome.kind = "throw"
       /\ outcome.error.name = "APIException"
       /\ outcome.error.code = -2009

\* the error the wrapper raises at the lowest tier
InsufficientCreditsError ==
  APIException(EX.API_IMAGE_GENERATION_INSUFFICIENT_POINTS, MSG_REMEDIATION)

\* C21: the throw that follows the tier loop of generateImagesWithRetry is
\* never reached: the tier index stays inside the tier list from the first
\* loop test on, every pass of the loop runs an attempt at that tier, and the
\* wrapper ends only on a settled attempt, with that attempt's result list,
\* with that attempt's error as it is, or with InsufficientCredits.
C21_FallthroughUnreachable ==
  /\ []( currentResIndex >= 0 /\ currentResIndex < Len(resolutionLevels) )
  /\ [][ currentResIndex' # currentResIndex
           => /\ currentResIndex' < Len(resolutionLevels)
              /\ Len(calls') = Len(calls) + 1
              /\ wpc' = "awaiting" ]_vars
  /\ [][ (wpc # "done" /\ wpc' = "done")
           => /\ wpc = "awaiting" /\ pc = "done"
              /\ calls' = calls /\ inner' = inner ]_vars
  /\ []( wpc = "done"
           => /\ Len(calls) >= 1 /\ pc = "done"
              /\ \/ inner.kind = "return" /\ outcome = Return(inner.value)
                 \/ inner.kind = "throw" /\ outcome = Throw(inner.error)
                 \/ /\ inner.kind = "throw" /\ CreditSignature(inner.error)
                    /\ outcome = Throw(InsufficientCreditsError) )

\* C21 witness: after a downgrade the loop ran its last pass at the last tier
\* index and the call ended with that attempt's error, which is no credit failure
C21_Witness ==
  /\ wpc = "done"
  /\ currentResIndex = Len(resolutionLevels) - 1
  /\ Len(calls) = 2
  /\ inner.kind = "throw" /\ ~CreditSignature(inner.error)
  /\ outcome = Throw(inner.error)

====
